---- MODULE Spec2Model ----
(***************************************************************************)
(* The network map component (src/src/components/map/index.tsx): the       *)
(* distance function of the link force, the tick handler, the highlight    *)
(* function and the MapComponent lifecycle around them.                    *)
(*                                                                         *)
(* Numbers.  Coordinates, sizes and zoom scales are integers.  A link's    *)
(* depth is a fixed-point number counted in 1/DepthScale, so that the      *)
(* truncation ~~ has something to truncate.  Opacities are in hundredths   *)
(* (15 for 0.15, 100 for 1).  Math.sqrt is the integer square root; the    *)
(* node layouts are chosen so that the distances between nodes are exact.  *)
(*                                                                         *)
(* Objects.  A node record is identified by the delivery of the network    *)
(* graph that created it (gen) and its ieeeAddr; === on node records is    *)
(* equality of these references.                                           *)
(***************************************************************************)
EXTENDS Integers, Sequences, FiniteSets, TLC

VARIABLES
    phase,        \* "constructed" (before mount) | "mounted"
    props,        \* this.props: networkGraph, networkGraphIsLoading
    state,        \* this.state: selectedNode, width, height, visibleLinks
    transform,    \* this.transform
    simulation,   \* this.simulation
    zoomHandler,  \* the zoom behaviour updateNodes attached to the svg
    dom,          \* what is rendered, with the attributes d3 has set
    threw,        \* updateNodes raised a TypeError
    lastTicked,   \* history: the arguments of the most recent call of ticked
    lastZoom,     \* history: the transform of the most recent zoom event
    lastEvent     \* history: the handler that ran last, with its input

vars == <<phase, props, state, transform, simulation, zoomHandler, dom, threw,
          lastTicked, lastZoom, lastEvent>>

(***************************************************************************)
(* Bounds of the model.                                                    *)
(***************************************************************************)
\* deliveries of a network graph by the store
MaxGen == 2
\* a depth is a multiple of 1/DepthScale
DepthScale == 2
\* depths range over -1 .. MaxDepth (whole units)
MaxDepth == 5

(***************************************************************************)
(* Program constants.                                                      *)
(***************************************************************************)
\* ZigbeeRelationship.NeigbhorIsAChild, the initially visible relationship
NeigbhorIsAChild == 1
\* ticked: const radius = 40
radius == 40
\* ticked: imgXShift = imgYShift = 32 / 2
imgShift == 16
\* opacity 0.15, in hundredths
Dimmed == 15
\* opacity 1, in hundredths
Opaque == 100

Min(a, b) == IF a <= b THEN a ELSE b
Max(a, b) == IF a >= b THEN a ELSE b

Restrict(f, S) == [k \in (DOMAIN f) \cap S |-> f[k]]

(***************************************************************************)
(* Values.                                                                 *)
(***************************************************************************)
Addr == {"0x0a", "0x0b", "0x0c"}

\* the relationships the link-type checkboxes offer (consts.linkTypes)
linkTypes == {1, 2}

NodeRef(g, a) == [gen |-> g, ieeeAddr |-> a]
\* selectedNode: null
NoNode == [gen |-> 0, ieeeAddr |-> "null"]

zoomIdentity == [k |-> 1, x |-> 0, y |-> 0]
applyX(t, v) == v * t.k + t.x
applyY(t, v) == v * t.k + t.y

(***************************************************************************)
(* Number.prototype.toString and parseInt(value, 10) on the value          *)
(* attribute of a checkbox: a string is a sequence of characters.          *)
(***************************************************************************)
DigitChars == <<"0", "1", "2", "3", "4", "5", "6", "7", "8", "9">>

RECURSIVE NumberToString(_)
NumberToString(n) ==
    IF n < 10 THEN <<DigitChars[n + 1]>>
    ELSE NumberToString(n \div 10) \o <<DigitChars[(n % 10) + 1]>>

DigitValue(ch) == (CHOOSE i \in 1..10 : DigitChars[i] = ch) - 1

RECURSIVE parseInt(_)
parseInt(s) ==
    IF Len(s) = 1 THEN DigitValue(s[1])
    ELSE 10 * parseInt(SubSeq(s, 1, Len(s) - 1)) + DigitValue(s[Len(s)])

(***************************************************************************)
(* Math.sqrt and ~~.                                                       *)
(***************************************************************************)
RECURSIVE Newton(_, _)
Newton(n, x) ==
    LET y == (x + (n \div x)) \div 2
    IN IF y >= x THEN x ELSE Newton(n, y)

sqrt(n) == IF n = 0 THEN 0 ELSE Newton(n, n)

\* ~~v for a fixed-point v counted in 1/DepthScale: ToInt32, which is the
\* truncation toward zero of a value within 32 bits
Trunc(v) == IF v >= 0 THEN v \div DepthScale ELSE -((-v) \div DepthScale)

(***************************************************************************)
(* getDistance                                                             *)
(***************************************************************************)
distancesMap ==
    [BrokenLink |-> 450,
     Router2Router |-> 300,
     Coordinator2Router |-> 400,
     Coordinator2EndDevice |-> 100,
     EndDevice2Router |-> 100]

\* getDistance without Math.min(4, ...)
getDistanceNoCap(d) ==
    LET distance == IF d.linkType \in DOMAIN distancesMap
                    THEN distancesMap[d.linkType] ELSE 200
        depth == Trunc(d.depth)
    IN 50 * depth + distance

\* getDistance reading d.relationship where it should read d.depth
getDistanceByRelationship(d) ==
    LET distance == IF d.linkType \in DOMAIN distancesMap
                    THEN distancesMap[d.linkType] ELSE 200
        depth == Trunc(Min(4 * DepthScale, d.relationship * DepthScale))
    IN 50 * depth + distance

getDistance(d) ==
    LET distance == IF d.linkType \in DOMAIN distancesMap
                    THEN distancesMap[d.linkType] ELSE 200
        depth == Trunc(Min(4 * DepthScale, d.depth))
    IN 50 * depth + distance

(***************************************************************************)
(* Geometry of a tick.  posOf gives the x and y of the node record a link  *)
(* end refers to.  The radius dr of an arc is rounded down.                *)
(***************************************************************************)
posOf(c, ref) == c.props.networkGraph.nodes[ref.ieeeAddr]

\* Math.cos(angle(s, t)) * offset and Math.sin(angle(s, t)) * offset;
\* atan2(0, 0) is 0
xpos(offset, s, t) ==
    LET dx == t.x - s.x
        dy == t.y - s.y
        h == sqrt(dx * dx + dy * dy)
    IN (IF h = 0 THEN offset ELSE (offset * dx) \div h) + s.x

ypos(offset, s, t) ==
    LET dx == t.x - s.x
        dy == t.y - s.y
        h == sqrt(dx * dx + dy * dy)
    IN (IF h = 0 THEN 0 ELSE (offset * dy) \div h) + s.y

computeLink(c, d, t, r, width, height) ==
    LET src == posOf(c, d.source)
        dst == posOf(c, d.target)
        x1 == applyX(t, Max(r, Min(width - r, src.x)))
        y1 == applyY(t, Max(r, Min(height - r, src.y)))
        x2 == applyX(t, Max(r, Min(width - r, dst.x)))
        y2 == applyY(t, Max(r, Min(height - r, dst.y)))
        dx == x2 - x1
        dy == y2 - y1
        dr == sqrt(dx * dx + dy * dy)
    IN IF d.repeated
       THEN [cmd |-> "A", x1 |-> x1, y1 |-> y1, x2 |-> x2, y2 |-> y2, dr |-> dr]
       ELSE [cmd |-> "L", x1 |-> x1, y1 |-> y1, x2 |-> x2, y2 |-> y2, dr |-> 0]

\* computeTransform without the lower clamp Math.max(radius, ...)
computeTransformNoMax(c, a, t, width, height) ==
    LET d == c.props.networkGraph.nodes[a]
        nodeX == Min(width - radius, applyX(t, d.x)) - imgShift
        nodeY == Min(height - radius, applyY(t, d.y)) - imgShift
    IN [x |-> nodeX, y |-> nodeY]

computeTransform(c, a, t, width, height) ==
    LET d == c.props.networkGraph.nodes[a]
        nodeX == Max(radius, Min(width - radius, applyX(t, d.x))) - imgShift
        nodeY == Max(radius, Min(height - radius, applyY(t, d.y))) - imgShift
    IN [x |-> nodeX, y |-> nodeY]

computeLabel(c, d, t) ==
    LET s == posOf(c, d.source)
        e == posOf(c, d.target)
        offset == IF d.repeated THEN 30 ELSE 60
    IN [anchor |-> IF d.repeated THEN "start" ELSE "end",
        x |-> applyX(t, xpos(offset, s, e)),
        y |-> applyY(t, ypos(offset, s, e))]

(***************************************************************************)
(* ticked: p = [transform, width, height]; the selections node, link and   *)
(* linkLabel are the elements of c.dom.  It returns the component as the   *)
(* call leaves it.                                                         *)
(***************************************************************************)
\* ticked that also stores the clamped position in the node record
tickedWriteBack(c, p) ==
    [c EXCEPT
        !.dom.linkD = [i \in DOMAIN c.dom.links |->
            computeLink(c, c.dom.links[i], p.transform, radius, p.width, p.height)],
        !.dom.label = [i \in DOMAIN c.dom.links |->
            computeLabel(c, c.dom.links[i], p.transform)],
        !.dom.nodeTransform = [a \in {n.ieeeAddr : n \in c.dom.nodes} |->
            computeTransform(c, a, p.transform, p.width, p.height)],
        !.props.networkGraph.nodes = [a \in DOMAIN @ |->
            [@[a] EXCEPT !.x = Max(radius, Min(p.width - radius, @)),
                         !.y = Max(radius, Min(p.height - radius, @))]],
        !.lastTicked = [called |-> TRUE, transform |-> p.transform,
                        width |-> p.width, height |-> p.height]]

ticked(c, p) ==
    [c EXCEPT
        !.dom.linkD = [i \in DOMAIN c.dom.links |->
            computeLink(c, c.dom.links[i], p.transform, radius, p.width, p.height)],
        !.dom.label = [i \in DOMAIN c.dom.links |->
            computeLabel(c, c.dom.links[i], p.transform)],
        !.dom.nodeTransform = [a \in {n.ieeeAddr : n \in c.dom.nodes} |->
            computeTransform(c, a, p.transform, p.width, p.height)],
        !.lastTicked = [called |-> TRUE, transform |-> p.transform,
                        width |-> p.width, height |-> p.height]]

(***************************************************************************)
(* processHighlights: p = [networkGraph, links, selectedNode].  The keys   *)
(* of linkedByIndex are the strings a + "," + b.                           *)
(***************************************************************************)
Key(a, b) == a \o "," \o b

\* processHighlights that looks for a link from the selected node only
processHighlightsOneWay(c, p) ==
    LET linkedByIndex ==
            {Key(a, a) : a \in DOMAIN p.networkGraph.nodes}
            \cup {Key(p.links[i].sourceIeeeAddr, p.links[i].targetIeeeAddr) :
                    i \in DOMAIN p.links}
        neighboring(a, b) == Key(a.ieeeAddr, b.ieeeAddr) \in linkedByIndex
        computeOpacity(l) ==
            IF l.source = p.selectedNode \/ l.target = p.selectedNode
            THEN Opaque ELSE Dimmed
    IN IF p.selectedNode # NoNode
       THEN [c EXCEPT
                !.dom.nodeOpacity = [a \in {n.ieeeAddr : n \in c.dom.nodes} |->
                    LET o == CHOOSE n \in c.dom.nodes : n.ieeeAddr = a
                    IN IF neighboring(p.selectedNode, o) THEN Opaque ELSE Dimmed],
                !.dom.linkOpacity = [i \in DOMAIN c.dom.links |->
                    computeOpacity(c.dom.links[i])],
                !.dom.labelOpacity = [i \in DOMAIN c.dom.links |->
                    computeOpacity(c.dom.links[i])]]
       ELSE [c EXCEPT
                !.dom.nodeOpacity = [a \in {n.ieeeAddr : n \in c.dom.nodes} |-> Opaque],
                !.dom.linkOpacity = [i \in DOMAIN c.dom.links |-> Opaque],
                !.dom.labelOpacity = [i \in DOMAIN c.dom.links |-> Opaque]]

processHighlights(c, p) ==
    LET linkedByIndex ==
            {Key(a, a) : a \in DOMAIN p.networkGraph.nodes}
            \cup {Key(p.links[i].sourceIeeeAddr, p.links[i].targetIeeeAddr) :
                    i \in DOMAIN p.links}
        neighboring(a, b) == Key(a.ieeeAddr, b.ieeeAddr) \in linkedByIndex
        computeOpacity(l) ==
            IF l.source = p.selectedNode \/ l.target = p.selectedNode
            THEN Opaque ELSE Dimmed
    IN IF p.selectedNode # NoNode
       THEN [c EXCEPT
                !.dom.nodeOpacity = [a \in {n.ieeeAddr : n \in c.dom.nodes} |->
                    LET o == CHOOSE n \in c.dom.nodes : n.ieeeAddr = a
                    IN IF neighboring(p.selectedNode, o) \/ neighboring(o, p.selectedNode)
                       THEN Opaque ELSE Dimmed],
                !.dom.linkOpacity = [i \in DOMAIN c.dom.links |->
                    computeOpacity(c.dom.links[i])],
                !.dom.labelOpacity = [i \in DOMAIN c.dom.links |->
                    computeOpacity(c.dom.links[i])]]
       ELSE [c EXCEPT
                !.dom.nodeOpacity = [a \in {n.ieeeAddr : n \in c.dom.nodes} |-> Opaque],
                !.dom.linkOpacity = [i \in DOMAIN c.dom.links |-> Opaque],
                !.dom.labelOpacity = [i \in DOMAIN c.dom.links |-> Opaque]]

(***************************************************************************)
(* The node layouts the simulation produces.  Layouts[1] is the initial    *)
(* placement simulation.nodes() gives to records that have no position.    *)
(***************************************************************************)
Layouts ==
    << [a \in Addr |-> CASE a = "0x0a" -> [x |-> 60, y |-> 40]
                         [] a = "0x0b" -> [x |-> 90, y |-> 40]
                         [] OTHER      -> [x |-> 60, y |-> 80]],
       [a \in Addr |-> CASE a = "0x0a" -> [x |-> 0, y |-> 0]
                         [] a = "0x0b" -> [x |-> 300, y |-> 0]
                         [] OTHER      -> [x |-> 0, y |-> 400]] >>

\* the zoom transforms a gesture may produce
Transforms ==
    {zoomIdentity, [k |-> 2, x |-> 100, y |-> -50]}

\* what getBoundingClientRect may report for the container
Rects == {[width |-> 0, height |-> 0], [width |-> 200, height |-> 100]}

includes(s, v) == \E i \in DOMAIN s : s[i] = v

visible(c) ==
    SelectSeq(c.props.networkGraph.links,
              LAMBDA l : includes(c.state.visibleLinks, l.relationship))

(***************************************************************************)
(* MapComponent.updateNodes.  forceLink.links() works out the distance of  *)
(* every link it is given; alphaTarget is kept in tenths.  A simulation    *)
(* without a link force makes line 140 raise, after line 139 has run.      *)
(***************************************************************************)
simulationNodes(c) ==
    [c EXCEPT
        !.props.networkGraph.nodes = [a \in DOMAIN @ |->
            IF @[a].placed THEN @[a]
            ELSE [@[a] EXCEPT !.x = Layouts[1][a].x, !.y = Layouts[1][a].y,
                              !.placed = TRUE]],
        !.simulation.nodes =
            {NodeRef(c.props.networkGraph.gen, a) : a \in DOMAIN c.props.networkGraph.nodes}]

updateNodes(c) ==
    LET networkGraph == c.props.networkGraph
        links == visible(c)
        c1 == simulationNodes(c)
    IN IF "link" \notin c.simulation.forces
       THEN [c1 EXCEPT !.threw = TRUE]
       ELSE LET c2 == [c1 EXCEPT
                    !.simulation.links = links,
                    !.simulation.distances = [i \in DOMAIN links |-> getDistance(links[i])],
                    !.simulation.tick = [on |-> TRUE, width |-> c.state.width,
                                         height |-> c.state.height],
                    !.zoomHandler = [on |-> c.dom.svg, width |-> c.state.width,
                                     height |-> c.state.height]]
                c3 == processHighlights(c2,
                        [networkGraph |-> c2.props.networkGraph, links |-> links,
                         selectedNode |-> c.state.selectedNode])
            IN [c3 EXCEPT !.simulation.alphaTarget = 3]

(***************************************************************************)
(* MapComponent.updateForces: forceCenter(width / 2, height / 2) is kept   *)
(* as the width and height it was given.                                   *)
(***************************************************************************)
updateForces(c, width, height) ==
    [c EXCEPT !.simulation =
        [id |-> c.simulation.id + 1,
         forces |-> {"link", "charge", "collisionForce", "repelForce", "center", "x", "y"},
         center |-> [width |-> width, height |-> height],
         nodes |-> {}, links |-> <<>>, distances |-> <<>>,
         tick |-> [on |-> FALSE, width |-> 0, height |-> 0],
         alphaTarget |-> 0]]

(***************************************************************************)
(* render, renderMapControls, renderMap, renderMessage.  An element that   *)
(* stays keeps the attributes d3 has set on it; node elements are told     *)
(* apart by ieeeAddr, link elements by their place.                        *)
(***************************************************************************)
NoDom ==
    [svg |-> FALSE, controls |-> FALSE, message |-> "none", checked |-> {},
     viewBox |-> [width |-> 0, height |-> 0], everything |-> zoomIdentity,
     links |-> <<>>, nodes |-> {}, simulation |-> -1,
     nodeOpacity |-> <<>>, linkOpacity |-> <<>>, labelOpacity |-> <<>>,
     nodeTransform |-> <<>>, linkD |-> <<>>, label |-> <<>>]

renderMapControls(c) ==
    [c EXCEPT !.dom.controls = TRUE,
              !.dom.checked = {r \in linkTypes : includes(c.state.visibleLinks, r)}]

renderMap(c) ==
    LET links == visible(c)
        addrs == DOMAIN c.props.networkGraph.nodes
    IN [c EXCEPT
        !.dom.svg = TRUE,
        !.dom.message = "none",
        !.dom.viewBox = [width |-> c.state.width, height |-> c.state.height],
        !.dom.links = links,
        !.dom.nodes = {NodeRef(c.props.networkGraph.gen, a) : a \in addrs},
        !.dom.simulation = c.simulation.id,
        !.dom.nodeOpacity = Restrict(@, addrs),
        !.dom.nodeTransform = Restrict(@, addrs),
        !.dom.linkOpacity = Restrict(@, DOMAIN links),
        !.dom.labelOpacity = Restrict(@, DOMAIN links),
        !.dom.linkD = Restrict(@, DOMAIN links),
        !.dom.label = Restrict(@, DOMAIN links)]

renderMessage(c) ==
    [c EXCEPT !.dom = [NoDom EXCEPT !.message =
        IF c.props.networkGraphIsLoading THEN "loading" ELSE "button"]]

render(c) ==
    IF Cardinality(DOMAIN c.props.networkGraph.nodes) # 0
    THEN renderMap(renderMapControls(c))
    ELSE renderMessage(c)

componentDidUpdate(c) == updateNodes(c)

\* one update of the component: render, then componentDidUpdate
update(c) == IF c.threw THEN c ELSE componentDidUpdate(render(c))

\* setState inside a handler: the update follows when the handler returns
setState(c, patch) ==
    [c EXCEPT !.state = [f \in DOMAIN @ |-> IF f \in DOMAIN patch THEN patch[f] ELSE @[f]]]

\* initPage whose setState updates the component at once, before updateForces
initPageFlush(c, rect) ==
    updateForces(update(setState(c, [width |-> rect.width, height |-> rect.height])),
                 rect.width, rect.height)

initPage(c, rect) ==
    updateForces(setState(c, [width |-> rect.width, height |-> rect.height]),
                 rect.width, rect.height)

componentDidMount(c, rect) == initPage(c, rect)

(***************************************************************************)
(* The handlers updateNodes registers, and the change handler of the       *)
(* link-type checkboxes.                                                   *)
(***************************************************************************)
\* simulation.on("tick", ...): the selections the handler holds are the
\* elements of c.dom, since every render is followed by updateNodes
tickHandler(c) ==
    ticked(c, [transform |-> c.transform, width |-> c.simulation.tick.width,
               height |-> c.simulation.tick.height])

\* the zoom handler without this.transform = transform
zoomedNoStore(c, t) ==
    ticked([c EXCEPT !.dom.everything = t],
           [transform |-> t, width |-> c.zoomHandler.width,
            height |-> c.zoomHandler.height])

\* zoom().on("zoom", ...)
zoomed(c, t) ==
    ticked([c EXCEPT !.dom.everything = t, !.transform = t],
           [transform |-> t, width |-> c.zoomHandler.width,
            height |-> c.zoomHandler.height])

\* node.on("click", ...)
clicked(c, d) ==
    setState(c, [selectedNode |-> IF c.state.selectedNode # NoNode THEN NoNode ELSE d])

\* the change handler whose filter keeps inValue and drops the rest
onLinkTypeFilterChangeKeep(c, e) ==
    LET stateVisibleLinks == c.state.visibleLinks
        inValue == parseInt(e.value)
        visibleLinks == IF e.checked
                        THEN Append(stateVisibleLinks, inValue)
                        ELSE SelectSeq(stateVisibleLinks, LAMBDA v : v = inValue)
    IN setState(c, [visibleLinks |-> visibleLinks])

\* e = [checked, value]
onLinkTypeFilterChange(c, e) ==
    LET stateVisibleLinks == c.state.visibleLinks
        inValue == parseInt(e.value)
        visibleLinks == IF e.checked
                        THEN Append(stateVisibleLinks, inValue)
                        ELSE SelectSeq(stateVisibleLinks, LAMBDA v : v # inValue)
    IN setState(c, [visibleLinks |-> visibleLinks])

(***************************************************************************)
(* The network graphs the store delivers.  Every delivery makes new node   *)
(* and link records; the ends of a link are node records of its delivery.  *)
(***************************************************************************)
Link(g, src, dst, rel, type, depth, rep) ==
    [source |-> NodeRef(g, src), target |-> NodeRef(g, dst),
     sourceIeeeAddr |-> src, targetIeeeAddr |-> dst,
     relationship |-> rel, linkType |-> type, depth |-> depth, repeated |-> rep]

Node(g, a) == [ieeeAddr |-> a, gen |-> g, x |-> 0, y |-> 0, placed |-> FALSE]

Graph(g, addrs, links) ==
    [gen |-> g, nodes |-> [a \in addrs |-> Node(g, a)], links |-> links]

Graphs(g) ==
    { Graph(g, {}, <<>>),
      Graph(g, Addr,
            << Link(g, "0x0a", "0x0b", 1, "Coordinator2Router", DepthScale, FALSE),
               Link(g, "0x0b", "0x0a", 2, "Coordinator2Router", DepthScale, TRUE),
               Link(g, "0x0c", "0x0b", 2, "Router2Router", 2 * DepthScale + 1, FALSE) >>),
      Graph(g, {"0x0a", "0x0b"},
            << Link(g, "0x0b", "0x0a", 1, "EndDevice2Coordinator", 0, FALSE) >>) }

(***************************************************************************)
(* The component, as one record, and back.                                 *)
(***************************************************************************)
This ==
    [props |-> props, state |-> state, transform |-> transform,
     simulation |-> simulation, zoomHandler |-> zoomHandler, dom |-> dom,
     threw |-> threw, lastTicked |-> lastTicked]

Is(c) ==
    /\ props = c.props
    /\ state = c.state
    /\ transform = c.transform
    /\ simulation = c.simulation
    /\ zoomHandler = c.zoomHandler
    /\ dom = c.dom
    /\ threw = c.threw
    /\ lastTicked = c.lastTicked

Becomes(c) ==
    /\ props' = c.props
    /\ state' = c.state
    /\ transform' = c.transform
    /\ simulation' = c.simulation
    /\ zoomHandler' = c.zoomHandler
    /\ dom' = c.dom
    /\ threw' = c.threw
    /\ lastTicked' = c.lastTicked

Event(op, rel, checked) == [op |-> op, rel |-> rel, checked |-> checked]

(***************************************************************************)
(* The component as constructed: the field initialisers of MapComponent.   *)
(***************************************************************************)
New(graph) ==
    [props |-> [networkGraph |-> graph, networkGraphIsLoading |-> FALSE],
     state |-> [selectedNode |-> NoNode, width |-> 0, height |-> 0,
                visibleLinks |-> <<NeigbhorIsAChild>>],
     transform |-> zoomIdentity,
     simulation |-> [id |-> 0, forces |-> {}, center |-> [width |-> 0, height |-> 0],
                     nodes |-> {}, links |-> <<>>, distances |-> <<>>,
                     tick |-> [on |-> FALSE, width |-> 0, height |-> 0],
                     alphaTarget |-> 0],
     zoomHandler |-> [on |-> FALSE, width |-> 0, height |-> 0],
     dom |-> NoDom,
     threw |-> FALSE,
     lastTicked |-> [called |-> FALSE, transform |-> zoomIdentity,
                     width |-> 0, height |-> 0]]

\* the first render, componentDidMount, and the update its setState asks for
mount(c, rect) == update(componentDidMount(render(c), rect))

Init ==
    /\ phase = "constructed"
    /\ \E graph \in Graphs(1) : Is(New(graph))
    /\ lastZoom = zoomIdentity
    /\ lastEvent = Event("new", 0, FALSE)

(***************************************************************************)
(* The steps of the component.                                             *)
(***************************************************************************)
Mount ==
    /\ phase = "constructed"
    /\ \E rect \in Rects : Becomes(mount(This, rect))
    /\ phase' = "mounted"
    /\ lastEvent' = Event("mount", 0, FALSE)
    /\ UNCHANGED lastZoom

\* a click on a rendered node; d is the record bound to the element
NodeClick ==
    /\ phase = "mounted" /\ ~threw
    /\ \E d \in dom.nodes : Becomes(update(clicked(This, d)))
    /\ lastEvent' = Event("click", 0, FALSE)
    /\ UNCHANGED <<phase, lastZoom>>

\* a change event of the checkbox of relationship r
LinkTypeFilterChange ==
    /\ phase = "mounted" /\ ~threw
    /\ dom.controls
    /\ \E r \in linkTypes :
         LET e == [checked |-> r \notin dom.checked, value |-> NumberToString(r)]
         IN /\ Becomes(update(onLinkTypeFilterChange(This, e)))
            /\ lastEvent' = Event("filter", r, e.checked)
    /\ UNCHANGED <<phase, lastZoom>>

\* onRequestClick: networkMapRequest is the store's; it is taken to mark the
\* network graph as loading, which renderMessage shows
RequestClick ==
    /\ phase = "mounted" /\ ~threw
    /\ Becomes(update([This EXCEPT !.props.networkGraphIsLoading = TRUE]))
    /\ lastEvent' = Event("request", 0, FALSE)
    /\ UNCHANGED <<phase, lastZoom>>

\* the store delivers a network graph
StoreGraph ==
    /\ phase = "mounted" /\ ~threw
    /\ props.networkGraph.gen < MaxGen
    /\ \E graph \in Graphs(props.networkGraph.gen + 1) :
         Becomes(update([This EXCEPT !.props =
            [networkGraph |-> graph, networkGraphIsLoading |-> FALSE]]))
    /\ lastEvent' = Event("graph", 0, FALSE)
    /\ UNCHANGED <<phase, lastZoom>>

\* a zoom gesture on the svg, ending at a transform of T
ZoomEventIn(T) ==
    /\ phase = "mounted" /\ ~threw
    /\ zoomHandler.on /\ dom.svg
    /\ \E t \in T :
         /\ Becomes(zoomed(This, t))
         /\ lastZoom' = t
    /\ lastEvent' = Event("zoom", 0, FALSE)
    /\ UNCHANGED phase

\* a tick of the simulation: it has moved the nodes to a layout of L, then
\* calls the handler
SimTickIn(L) ==
    /\ phase = "mounted" /\ ~threw
    /\ simulation.tick.on
    /\ \E n \in DOMAIN L :
         Becomes(tickHandler([This EXCEPT !.props.networkGraph.nodes =
            [a \in DOMAIN @ |-> [@[a] EXCEPT !.x = L[n][a].x, !.y = L[n][a].y]]]))
    /\ lastEvent' = Event("tick", 0, FALSE)
    /\ UNCHANGED <<phase, lastZoom>>

ZoomEvent == ZoomEventIn(Transforms)

SimTick == SimTickIn(Layouts)

Next ==
    \/ Mount
    \/ NodeClick
    \/ LinkTypeFilterChange
    \/ RequestClick
    \/ StoreGraph
    \/ ZoomEvent
    \/ SimTick

Spec == Init /\ [][Next]_vars

(***************************************************************************)
(* The geometry of a tick on a wider range of sizes, transforms and        *)
(* layouts: the component is mounted on the full graph with both link      *)
(* types shown, and is zoomed and ticked.                                  *)
(***************************************************************************)
FullGraph == CHOOSE graph \in Graphs(1) : Len(graph.links) = 3

ShowAll(c) ==
    update(onLinkTypeFilterChange(c, [checked |-> TRUE, value |-> NumberToString(2)]))

GeomRects ==
    {[width |-> 0, height |-> 0], [width |-> 60, height |-> 100],
     [width |-> 80, height |-> 80], [width |-> 200, height |-> 100],
     [width |-> 640, height |-> 480]}

GeomTransforms ==
    {[k |-> k, x |-> x, y |-> y] : k \in {1, 2, 3}, x \in {-100, 0, 100}, y \in {-50, 0}}

GeomLayouts ==
    Layouts \o
    << [a \in Addr |-> CASE a = "0x0a" -> [x |-> -30, y |-> -40]
                         [] a = "0x0b" -> [x |-> 0, y |-> 0]
                         [] OTHER      -> [x |-> -30, y |-> 0]],
       [a \in Addr |-> [x |-> 50, y |-> 50]],
       [a \in Addr |-> CASE a = "0x0a" -> [x |-> 100, y |-> 50]
                         [] a = "0x0b" -> [x |-> 500, y |-> 350]
                         [] OTHER      -> [x |-> 500, y |-> 50]] >>

GeomInit ==
    /\ phase = "mounted"
    /\ \E rect \in GeomRects : Is(ShowAll(mount(New(FullGraph), rect)))
    /\ lastZoom = zoomIdentity
    /\ lastEvent = Event("filter", 2, TRUE)

GeomZoom == ZoomEventIn(GeomTransforms)

GeomTick == SimTickIn(GeomLayouts)

GeomNext ==
    \/ GeomZoom
    \/ GeomTick

GeomSpec == GeomInit /\ [][GeomNext]_vars

(***************************************************************************)
(* getDistance on a wider range of links: the component is mounted on a    *)
(* graph of two links, the second one the first with its link type, its    *)
(* depth or its relationship changed, and is updated by clicks on nodes.   *)
(***************************************************************************)
LinkTypeNames == (DOMAIN distancesMap) \cup {"EndDevice2Coordinator"}

Depths == (-DepthScale) .. (MaxDepth * DepthScale)

DistInit ==
    /\ phase = "mounted"
    /\ \E r \in linkTypes, t \in LinkTypeNames, dp \in Depths :
       \E w \in ({<<q, t, dp>> : q \in linkTypes}
                 \cup {<<r, q, dp>> : q \in LinkTypeNames}
                 \cup {<<r, t, q>> : q \in Depths}) :
          Is(ShowAll(mount(New(
              Graph(1, {"0x0a", "0x0b"},
                    << Link(1, "0x0a", "0x0b", r, t, dp, FALSE),
                       Link(1, "0x0b", "0x0a", w[1], w[2], w[3], TRUE) >>)),
              [width |-> 200, height |-> 100])))
    /\ lastZoom = zoomIdentity
    /\ lastEvent = Event("filter", 2, TRUE)

DistUpdate == NodeClick

DistNext == DistUpdate

DistSpec == DistInit /\ [][DistNext]_vars

(***************************************************************************)
(* Properties.                                                             *)
(***************************************************************************)
InVisible(r) == \E i \in DOMAIN state.visibleLinks : state.visibleLinks[i] = r

Selected == state.selectedNode # NoNode

\* a visible link of the network graph joins the devices a and b, either way
Joined(a, b) ==
    \E i \in DOMAIN props.networkGraph.links :
        LET l == props.networkGraph.links[i]
        IN /\ InVisible(l.relationship)
           /\ \/ l.sourceIeeeAddr = a /\ l.targetIeeeAddr = b
              \/ l.sourceIeeeAddr = b /\ l.targetIeeeAddr = a

\* a link end is the selected device
Attached(l) ==
    /\ Selected
    /\ \/ l.sourceIeeeAddr = state.selectedNode.ieeeAddr
       \/ l.targetIeeeAddr = state.selectedNode.ieeeAddr

(* C1: once updateNodes has run, a rendered node has opacity 0.15 exactly  *)
(* when a node is selected and the node is neither the selected device nor *)
(* joined to it, in either direction, by a visible link; otherwise, and    *)
(* whenever no node is selected, its opacity is 1.                         *)
C1_NodeHighlight ==
    phase = "mounted" =>
        \A n \in dom.nodes :
            LET dim == /\ Selected
                       /\ n.ieeeAddr # state.selectedNode.ieeeAddr
                       /\ ~Joined(state.selectedNode.ieeeAddr, n.ieeeAddr)
            IN dom.nodeOpacity[n.ieeeAddr] = (IF dim THEN 15 ELSE 100)

\* a node is selected, one node is dimmed, another is lit only because it is
\* the source of a visible link to the selected node, and a hidden link
\* touches the selected node
C1_Witness ==
    /\ phase = "mounted" /\ Selected
    /\ \E n \in dom.nodes : dom.nodeOpacity[n.ieeeAddr] = 15
    /\ \E n \in dom.nodes :
        /\ n.ieeeAddr # state.selectedNode.ieeeAddr
        /\ dom.nodeOpacity[n.ieeeAddr] = 100
        /\ \A i \in DOMAIN dom.links :
            dom.links[i].sourceIeeeAddr # state.selectedNode.ieeeAddr
    /\ \E i \in DOMAIN props.networkGraph.links :
        /\ ~InVisible(props.networkGraph.links[i].relationship)
        /\ Attached(props.networkGraph.links[i])

(* C2: once updateNodes has run, every rendered link and its label whose   *)
(* source or target is the selected device has opacity 1 and every other   *)
(* one 0.15; with no node selected all links and labels have opacity 1.    *)
C2_LinkHighlight ==
    phase = "mounted" =>
        \A i \in DOMAIN dom.links :
            LET want == IF ~Selected \/ Attached(dom.links[i]) THEN 100 ELSE 15
            IN dom.linkOpacity[i] = want /\ dom.labelOpacity[i] = want

(* C3: every call of ticked, from a tick of the simulation or from a zoom  *)
(* event, is given the transform of the most recent zoom event (the        *)
(* identity transform if there has been none).                             *)
C3_CurrentZoom ==
    lastTicked.called => lastTicked.transform = lastZoom

\* a tick of the simulation after a zoom and after a new network graph
C3_Witness ==
    /\ lastEvent.op = "tick"
    /\ lastZoom # zoomIdentity
    /\ props.networkGraph.gen > 1
    /\ lastTicked.transform = lastZoom

(* C5: ticked and processHighlights leave the component state, the stored  *)
(* zoom transform and the node and link records as they were, and a second *)
(* call with the same arguments gives what the first gave; getDistance     *)
(* gives for a link what it gave when the link force was set up.           *)
C5_Kept(r) ==
    /\ r.state = state
    /\ r.transform = transform
    /\ r.props = props
    /\ r.dom.links = dom.links
    /\ r.dom.nodes = dom.nodes

C5_Stateless ==
    phase = "mounted" =>
        LET tp == [transform |-> transform, width |-> simulation.tick.width,
                   height |-> simulation.tick.height]
            hp == [networkGraph |-> props.networkGraph, links |-> simulation.links,
                   selectedNode |-> state.selectedNode]
            t1 == ticked(This, tp)
            h1 == processHighlights(This, hp)
        IN /\ C5_Kept(t1)
           /\ ticked(t1, tp) = t1
           /\ lastEvent.op \in {"tick", "zoom"} => t1 = This
           /\ C5_Kept(h1)
           /\ h1 = This
           /\ \A i \in DOMAIN simulation.links :
                getDistance(simulation.links[i]) = simulation.distances[i]

\* a tick under a zoom, with a node selected and links on show, that had to
\* clamp a node
C5_Witness ==
    /\ phase = "mounted" /\ lastEvent.op = "tick" /\ Selected
    /\ Len(dom.links) > 0
    /\ transform # zoomIdentity
    /\ \E a \in DOMAIN dom.nodeTransform :
        dom.nodeTransform[a].y + imgShift # applyY(transform, props.networkGraph.nodes[a].y)

(* C9: updateNodes never finds a simulation without a link force: the      *)
(* simulation of updateForces has replaced the initial one before it first *)
(* runs; and the simulation updateNodes sets up is the one the preceding   *)
(* render handed to Nodes.                                                 *)
C9_Lifecycle ==
    /\ ~threw
    /\ phase = "constructed" => ~simulation.tick.on /\ simulation.id = 0
    /\ phase = "mounted" =>
        /\ simulation.id = 1
        /\ "link" \in simulation.forces
        /\ simulation.tick.on
        /\ dom.svg => dom.simulation = simulation.id

\* the map is rendered and updateNodes has given the simulation its nodes
C9_Witness ==
    /\ phase = "mounted"
    /\ dom.svg
    /\ Cardinality(simulation.nodes) > 0
    /\ Len(simulation.links) > 0

(* C10: visibleLinks starts as [NeigbhorIsAChild]; it never holds a        *)
(* relationship twice; a change event of a checkbox makes its relationship *)
(* visible exactly when the event is a check and leaves the others as they *)
(* were; the links given to the simulation and the links rendered are the  *)
(* links of the network graph whose relationship is visible.               *)
C10_State ==
    /\ \A i, j \in DOMAIN state.visibleLinks :
        state.visibleLinks[i] = state.visibleLinks[j] => i = j
    /\ phase = "mounted" =>
        LET want == {props.networkGraph.links[i] :
                        i \in {k \in DOMAIN props.networkGraph.links :
                                InVisible(props.networkGraph.links[k].relationship)}}
        IN /\ {simulation.links[i] : i \in DOMAIN simulation.links} = want
           /\ {dom.links[i] : i \in DOMAIN dom.links} = want
           /\ Len(simulation.links) = Cardinality(want)
           /\ Len(dom.links) = Cardinality(want)

C10_Step ==
    \A r \in linkTypes :
        InVisible(r)' = IF lastEvent'.op = "filter" /\ lastEvent'.rel = r
                        THEN lastEvent'.checked
                        ELSE InVisible(r)

C10_Filter ==
    /\ state.visibleLinks = <<NeigbhorIsAChild>>
    /\ []C10_State
    /\ [][C10_Step]_vars

\* the initial relationship has been unchecked and another one checked
C10_Witness ==
    /\ lastEvent = Event("filter", NeigbhorIsAChild, FALSE)
    /\ state.visibleLinks = <<2>>
    /\ Len(simulation.links) > 0

\* the centre of the image of the node element a, as the last tick placed it
CentreX(a) == dom.nodeTransform[a].x + 16
CentreY(a) == dom.nodeTransform[a].y + 16

JustTicked == phase = "mounted" /\ lastEvent.op \in {"tick", "zoom"}

(* C7, as stated: after a tick the centre of every node image lies in the  *)
(* viewport inset by 40, x in [40, width - 40] and y in [40, height - 40], *)
(* for every width and height of the state, 0 included.                    *)
C7_InsideInset ==
    JustTicked =>
        \A a \in DOMAIN dom.nodeTransform :
            /\ 40 <= CentreX(a) /\ CentreX(a) <= state.width - 40
            /\ 40 <= CentreY(a) /\ CentreY(a) <= state.height - 40

(* C7, amended: after a tick the centre of every node image has x in       *)
(* [40, max(40, width - 40)] and y in [40, max(40, height - 40)]: inside   *)
(* the inset viewport on every axis of at least 80, and at 40 on an axis   *)
(* shorter than 80.                                                        *)
C7_InsideInsetOrPinned ==
    JustTicked =>
        \A a \in DOMAIN dom.nodeTransform :
            /\ 40 <= CentreX(a)
            /\ CentreX(a) <= (IF state.width >= 80 THEN state.width - 40 ELSE 40)
            /\ 40 <= CentreY(a)
            /\ CentreY(a) <= (IF state.height >= 80 THEN state.height - 40 ELSE 40)

\* a tick under a zoom in a container narrower than 80 and one at least 80
\* high, with a node whose transformed position lies left of the inset
C7_Witness ==
    /\ JustTicked
    /\ state.width < 80 /\ state.height >= 80
    /\ transform # zoomIdentity
    /\ \E a \in DOMAIN dom.nodeTransform :
        /\ applyX(transform, props.networkGraph.nodes[a].x) < 40
        /\ CentreX(a) = 40
    /\ \E a \in DOMAIN dom.nodeTransform : CentreY(a) = state.height - 40

(* C8: after a tick the path of every link starts at the centre of the     *)
(* image of its source node and ends at the centre of the image of its     *)
(* target node.                                                            *)
C8_LinkMeetsNodes ==
    JustTicked =>
        \A i \in DOMAIN dom.linkD :
            LET l == dom.links[i]
            IN /\ dom.linkD[i].x1 = CentreX(l.sourceIeeeAddr)
               /\ dom.linkD[i].y1 = CentreY(l.sourceIeeeAddr)
               /\ dom.linkD[i].x2 = CentreX(l.targetIeeeAddr)
               /\ dom.linkD[i].y2 = CentreY(l.targetIeeeAddr)

\* the links the link force holds, with the distance it has for each
Measured == {<<simulation.links[i], simulation.distances[i]>> : i \in DOMAIN simulation.links}

(* C4, as stated: two links with the same relationship and the same depth  *)
(* get the same length.                                                    *)
C4_ByRelationship ==
    \A m, n \in Measured :
        m[1].relationship = n[1].relationship /\ m[1].depth = n[1].depth
            => m[2] = n[2]

(* C4, amended: two links with the same linkType and the same depth get    *)
(* the same length, whatever their relationship, ends and repeated flag.   *)
C4_ByLinkType ==
    \A m, n \in Measured :
        m[1].linkType = n[1].linkType /\ m[1].depth = n[1].depth
            => m[2] = n[2]

\* two links of one linkType and depth and of different relationships,
\* both measured
C4_Witness ==
    \E m, n \in Measured :
        /\ m[1].linkType = n[1].linkType /\ m[1].depth = n[1].depth
        /\ m[1].relationship # n[1].relationship
        /\ m[1].depth > 0
        /\ m[2] = n[2]

\* the table of the claim, and the depth capped at 4 and truncated toward 0
C6_Base(t) ==
    CASE t = "BrokenLink" -> 450
      [] t = "Router2Router" -> 300
      [] t = "Coordinator2Router" -> 400
      [] t = "Coordinator2EndDevice" -> 100
      [] t = "EndDevice2Router" -> 100
      [] OTHER -> 200

C6_Depth(v) ==
    LET capped == IF v > 4 * DepthScale THEN 4 * DepthScale ELSE v
    IN CHOOSE n \in -(MaxDepth + 1) .. (MaxDepth + 1) :
        IF capped >= 0
        THEN n * DepthScale <= capped /\ capped < (n + 1) * DepthScale
        ELSE (n - 1) * DepthScale < capped /\ capped <= n * DepthScale

(* C6: the length of a link is base + 50 * d, base from the table (200     *)
(* for a linkType it lacks), d the depth capped at 4 and truncated toward  *)
(* zero; for depths >= 0 the length lies in 100..650, does not decrease    *)
(* with the depth and is constant from depth 4 on.                         *)
C6_Length ==
    /\ \A m \in Measured :
        /\ m[2] = C6_Base(m[1].linkType) + 50 * C6_Depth(m[1].depth)
        /\ m[1].depth >= 0 => 100 <= m[2] /\ m[2] <= 650
    /\ \A m, n \in Measured :
        m[1].linkType = n[1].linkType /\ 0 <= m[1].depth /\ m[1].depth <= n[1].depth
            => /\ m[2] <= n[2]
               /\ m[1].depth >= 4 * DepthScale => m[2] = n[2]

\* a link of a fractional depth below 4 and a deeper link of the same
\* linkType beyond 4, the first shorter than the second
C6_Witness ==
    \E m, n \in Measured :
        /\ m[1].linkType = n[1].linkType
        /\ m[1].depth % DepthScale # 0 /\ m[1].depth > 0
        /\ n[1].depth > 4 * DepthScale
        /\ m[2] < n[2]
        /\ n[2] = 650

====
